---- MODULE Spec2Model ----
(***************************************************************************)
(* Model of the ledger replay engine of src/main.rs: struct Model with its *)
(* three collections and process_transaction, the transition function that *)
(* is called once per decoded CSV row.                                     *)
(*                                                                         *)
(* Numbers.  Balances and amounts are f64 in the source.  The model draws  *)
(* amounts from small integers, on which f64 addition, subtraction and     *)
(* comparison are exact, so Int arithmetic is what the code computes for   *)
(* these inputs.  Rounding of non-representable decimals (0.1 + 0.2) is    *)
(* outside the model.                                                      *)
(*                                                                         *)
(* Option<f64> is a sequence of length at most one: None is << >> and      *)
(* Some(a) is <<a>>.                                                       *)
(***************************************************************************)
EXTENDS Integers, Sequences, FiniteSets, TLC

\* ---------------------------------------------------------------- bounds
MaxAmount == 2
MaxRecords == 3

\* identifiers are only compared; two of each give "same" and "other"
ClientIDs == {1, 2}
TransactionIDs == {1, 2}
\* serde parses any f64, negative ones included
Amounts == (-1)..MaxAmount

None == << >>
Some(a) == <<a>>
OptAmounts == {None} \cup {Some(a) : a \in Amounts}

\* the five keywords matched by process_transaction, and one that is not
RevertableTypes == {"deposit", "withdrawal"}
ReferringTypes == {"dispute", "resolve", "chargeback"}
UnknownTypes == {"transfer"}

\* struct Transaction
Transaction(ty, c, t, a) == [tr_type |-> ty, client |-> c, tx |-> t, amount |-> a]

RevertableRecords ==
    {Transaction(ty, c, t, a) : ty \in RevertableTypes, c \in ClientIDs,
                                t \in TransactionIDs, a \in OptAmounts}
\* dispute, resolve and chargeback rows carry no amount; the code never reads it
ReferringRecords ==
    {Transaction(ty, c, t, None) : ty \in ReferringTypes, c \in ClientIDs,
                                   t \in TransactionIDs}
UnknownRecords ==
    {Transaction(ty, c, t, a) : ty \in UnknownTypes, c \in ClientIDs,
                                t \in TransactionIDs, a \in {None}}
Records == RevertableRecords \cup ReferringRecords \cup UnknownRecords

\* ----------------------------------------------------------------- state
VARIABLES
    clients,                 \* Model.clients: ClientID -> Client
    revertable_transactions, \* Model.revertable_transactions: TransactionID -> Transaction
    disputed_transactions,   \* Model.disputed_transactions: set of TransactionID
    last,                    \* history: the record handed to the last call, << >> before the first
    applied,                 \* history: the last record took a branch that updates balances
    wellformed,              \* history: every record so far obeys the input contract
    touched,                 \* history: clients named by a record that was applied
    nrec                     \* history: number of calls so far

vars == <<clients, revertable_transactions, disputed_transactions,
          last, applied, wellformed, touched, nrec>>

\* the ledger as one value, so that the handlers are functions of it
Ledger(cs, rt, dt) ==
    [clients |-> cs, revertable_transactions |-> rt, disputed_transactions |-> dt]

M == Ledger(clients, revertable_transactions, disputed_transactions)

\* HashMap::insert / entry().or_insert
Insert(f, k, v) == [x \in (DOMAIN f) \cup {k} |-> IF x = k THEN v ELSE f[x]]

\* the Client literal of or_insert
NewClient(c) ==
    [client |-> c, available |-> 0, held |-> 0, total |-> 0, locked |-> FALSE]

\* Model::new
EmptyLedger == Ledger(<< >>, << >>, {})

\* ------------------------------------------------------------- handlers
\* variant: a frozen account takes no deposit or withdrawal
Sufficient_UnlessLocked(client, amount, sign) ==
    ~client.locked /\ client.available + sign * amount > 0

\* variant: the boundary is accepted (available may reach exactly zero)
Sufficient_NonNegative(client, amount, sign) == client.available + sign * amount >= 0

\* the guard of the balance update, for deposits and withdrawals alike
Sufficient(client, amount, sign) == client.available + sign * amount > 0

\* variant: a credit or debit that goes through lifts the freeze
ApplyAmount_Unlocks(client, amount, sign) ==
    [client EXCEPT !.available = @ + sign * amount,
                   !.total = @ + sign * amount,
                   !.locked = FALSE]

ApplyAmount(client, amount, sign) ==
    [client EXCEPT !.available = @ + sign * amount,
                   !.total = @ + sign * amount]

process_revertable_transaction(m, tr, sign) ==
    LET cs1 == IF tr.client \in DOMAIN m.clients
               THEN m.clients
               ELSE Insert(m.clients, tr.client, NewClient(tr.client))
        client == cs1[tr.client]
        cs2 == IF tr.amount # None /\ Sufficient(client, tr.amount[1], sign)
               THEN [cs1 EXCEPT ![tr.client] = ApplyAmount(client, tr.amount[1], sign)]
               ELSE cs1
    IN  Ledger(cs2,
               Insert(m.revertable_transactions, tr.tx, tr),
               m.disputed_transactions)

\* variant: the disputed amount is held without leaving available
DisputeArm_KeepsAvailable(client, amount) ==
    [client EXCEPT !.held = @ + amount]

DisputeArm(client, amount) ==
    [client EXCEPT !.available = @ - amount, !.held = @ + amount]

\* variant: the hold is dropped without releasing the funds
ResolveArm_NoRelease(client, amount) ==
    [client EXCEPT !.held = @ - amount]

ResolveArm(client, amount) ==
    [client EXCEPT !.held = @ - amount, !.available = @ + amount]

\* variant: total is left out of the reversal
ChargebackArm_KeepsTotal(client, amount) ==
    [client EXCEPT !.held = @ - amount, !.locked = TRUE]

\* variant: the account is not frozen
ChargebackArm_NoLock(client, amount) ==
    [client EXCEPT !.held = @ - amount, !.total = @ - amount]

ChargebackArm(client, amount) ==
    [client EXCEPT !.held = @ - amount, !.total = @ - amount, !.locked = TRUE]

\* variant: resolve and chargeback do not ask whether the id is disputed
PassesChecks_NoNotDisputed(m, tr) ==
    /\ tr.tx \in DOMAIN m.revertable_transactions
    /\ m.revertable_transactions[tr.tx].client = tr.client
    /\ m.revertable_transactions[tr.tx].tr_type = "deposit"
    /\ tr.tr_type = "dispute" => tr.tx \notin m.disputed_transactions

\* variant: a dispute does not ask whether the id is already disputed
PassesChecks_NoAlreadyDisputed(m, tr) ==
    /\ tr.tx \in DOMAIN m.revertable_transactions
    /\ m.revertable_transactions[tr.tx].client = tr.client
    /\ m.revertable_transactions[tr.tx].tr_type = "deposit"
    /\ tr.tr_type # "dispute" => tr.tx \in m.disputed_transactions

\* variant: the kind of the referenced record is not looked at
PassesChecks_AnyType(m, tr) ==
    /\ tr.tx \in DOMAIN m.revertable_transactions
    /\ m.revertable_transactions[tr.tx].client = tr.client
    /\ IF tr.tr_type = "dispute"
       THEN tr.tx \notin m.disputed_transactions
       ELSE tr.tx \in m.disputed_transactions

\* variant: the owner of the referenced record is not compared
PassesChecks_AnyClient(m, tr) ==
    /\ tr.tx \in DOMAIN m.revertable_transactions
    /\ m.revertable_transactions[tr.tx].tr_type = "deposit"
    /\ IF tr.tr_type = "dispute"
       THEN tr.tx \notin m.disputed_transactions
       ELSE tr.tx \in m.disputed_transactions

\* the early returns of process_dispute_resolve_chargeback, in their order
PassesChecks(m, tr) ==
    /\ tr.tx \in DOMAIN m.revertable_transactions
    /\ m.revertable_transactions[tr.tx].client = tr.client
    /\ m.revertable_transactions[tr.tx].tr_type = "deposit"
    /\ IF tr.tr_type = "dispute"
       THEN tr.tx \notin m.disputed_transactions
       ELSE tr.tx \in m.disputed_transactions

process_dispute_resolve_chargeback(m, tr) ==
    IF ~PassesChecks(m, tr) THEN m
    ELSE LET original_tr == m.revertable_transactions[tr.tx] IN
         IF original_tr.amount = None THEN m
         ELSE IF tr.client \notin DOMAIN m.clients THEN m
         ELSE LET amount == original_tr.amount[1]
                  client == m.clients[tr.client]
              IN  CASE tr.tr_type = "dispute" ->
                         Ledger([m.clients EXCEPT ![tr.client] = DisputeArm(client, amount)],
                                m.revertable_transactions,
                                m.disputed_transactions \cup {tr.tx})
                    [] tr.tr_type = "resolve" ->
                         Ledger([m.clients EXCEPT ![tr.client] = ResolveArm(client, amount)],
                                m.revertable_transactions,
                                m.disputed_transactions \ {tr.tx})
                    [] tr.tr_type = "chargeback" ->
                         Ledger([m.clients EXCEPT ![tr.client] = ChargebackArm(client, amount)],
                                m.revertable_transactions,
                                m.disputed_transactions \ {tr.tx})
                    [] OTHER -> m

\* variant: an unmatched keyword falls through to the deposit handler
process_transaction_DefaultDeposit(m, tr) ==
    CASE tr.tr_type = "withdrawal" -> process_revertable_transaction(m, tr, -1)
      [] tr.tr_type \in ReferringTypes -> process_dispute_resolve_chargeback(m, tr)
      [] OTHER -> process_revertable_transaction(m, tr, 1)

process_transaction(m, tr) ==
    CASE tr.tr_type = "deposit" -> process_revertable_transaction(m, tr, 1)
      [] tr.tr_type = "withdrawal" -> process_revertable_transaction(m, tr, -1)
      [] tr.tr_type = "dispute" -> process_dispute_resolve_chargeback(m, tr)
      [] tr.tr_type = "resolve" -> process_dispute_resolve_chargeback(m, tr)
      [] tr.tr_type = "chargeback" -> process_dispute_resolve_chargeback(m, tr)
      [] OTHER -> m

\* ------------------------------------------------- outcome of one record
\* the record takes a branch that updates balances (no warn!/info! is logged)
Accepted(m, tr) ==
    CASE tr.tr_type \in RevertableTypes ->
           /\ tr.amount # None
           /\ LET v == IF tr.client \in DOMAIN m.clients
                       THEN m.clients[tr.client].available ELSE 0
                  sign == IF tr.tr_type = "deposit" THEN 1 ELSE -1
              IN  v + sign * tr.amount[1] > 0
      [] tr.tr_type \in ReferringTypes ->
           /\ PassesChecks(m, tr)
           /\ m.revertable_transactions[tr.tx].amount # None
           /\ tr.client \in DOMAIN m.clients
      [] OTHER -> FALSE

\* the input contract of the record stream: the amount of a deposit or
\* withdrawal is not negative and its transaction id is one no earlier
\* deposit or withdrawal has used
WellFormedRecord(m, tr) ==
    tr.tr_type \in RevertableTypes =>
        /\ tr.amount = None \/ tr.amount[1] >= 0
        /\ tr.tx \notin DOMAIN m.revertable_transactions

\* --------------------------------------------------------------- actions
Init ==
    /\ clients = EmptyLedger.clients
    /\ revertable_transactions = EmptyLedger.revertable_transactions
    /\ disputed_transactions = EmptyLedger.disputed_transactions
    /\ last = << >>
    /\ applied = FALSE
    /\ wellformed = TRUE
    /\ touched = {}
    /\ nrec = 0

\* one iteration of the loop of process_transactions over the record tr
Step(tr) ==
    /\ nrec < MaxRecords
    /\ LET m2 == process_transaction(M, tr) IN
        /\ clients' = m2.clients
        /\ revertable_transactions' = m2.revertable_transactions
        /\ disputed_transactions' = m2.disputed_transactions
    /\ last' = tr
    /\ applied' = Accepted(M, tr)
    /\ wellformed' = (wellformed /\ WellFormedRecord(M, tr))
    /\ touched' = IF Accepted(M, tr) THEN touched \cup {tr.client} ELSE touched
    /\ nrec' = nrec + 1

Deposit == \E tr \in RevertableRecords : tr.tr_type = "deposit" /\ Step(tr)
Withdrawal == \E tr \in RevertableRecords : tr.tr_type = "withdrawal" /\ Step(tr)
Dispute == \E tr \in ReferringRecords : tr.tr_type = "dispute" /\ Step(tr)
Resolve == \E tr \in ReferringRecords : tr.tr_type = "resolve" /\ Step(tr)
Chargeback == \E tr \in ReferringRecords : tr.tr_type = "chargeback" /\ Step(tr)
UnknownKind == \E tr \in UnknownRecords : Step(tr)

Next ==
    \/ Deposit
    \/ Withdrawal
    \/ Dispute
    \/ Resolve
    \/ Chargeback
    \/ UnknownKind

Spec == Init /\ [][Next]_vars

\* ---------------------------------------------------------------- claims
LastIs(ty) == nrec > 0 /\ last.tr_type = ty

\* the stored record a dispute, resolve or chargeback refers to is a deposit
\* of the same client that carries an amount
RefersToOwnDeposit(m, tr) ==
    /\ tr.tx \in DOMAIN m.revertable_transactions
    /\ m.revertable_transactions[tr.tx].tr_type = "deposit"
    /\ m.revertable_transactions[tr.tx].client = tr.client
    /\ m.revertable_transactions[tr.tx].amount # None

\* the balances a record of client c meets: the entry, or zeros when absent
Balances(m, c) == IF c \in DOMAIN m.clients THEN m.clients[c] ELSE NewClient(c)

\* C1: in every reachable state every client of the client map has
\* total = available + held.
TotalIsAvailablePlusHeld ==
    \A c \in DOMAIN clients :
        clients[c].total = clients[c].available + clients[c].held

\* a dispute has just been applied for a client that has both held and
\* available funds
TotalIsAvailablePlusHeld_Witness ==
    /\ LastIs("dispute") /\ applied /\ wellformed
    /\ clients[last.client].held > 0
    /\ clients[last.client].available > 0
    /\ clients[last.client].total > clients[last.client].held

\* C2: a Dispute of client c on a stored deposit t of c with amount a, t not
\* disputed, takes a from available, adds a to held, leaves total and locked,
\* puts t in the disputed set; the same Dispute again changes nothing.
DisputeMovesAmountToHeld ==
    \A tr \in ReferringRecords :
        (/\ tr.tr_type = "dispute"
         /\ RefersToOwnDeposit(M, tr)
         /\ tr.tx \notin disputed_transactions)
        => LET a == revertable_transactions[tr.tx].amount[1]
               c == tr.client
               m2 == process_transaction(M, tr)
           IN  /\ c \in DOMAIN clients
               /\ m2.clients[c].available = clients[c].available - a
               /\ m2.clients[c].held = clients[c].held + a
               /\ m2.clients[c].total = clients[c].total
               /\ m2.clients[c].locked = clients[c].locked
               /\ m2.disputed_transactions = disputed_transactions \cup {tr.tx}
               /\ process_transaction(m2, tr) = m2

\* a dispute on a credited deposit has just been applied
DisputeMovesAmountToHeld_Witness ==
    /\ LastIs("dispute") /\ applied
    /\ last.tx \in disputed_transactions
    /\ clients[last.client].held > 0
    /\ clients[last.client].held = revertable_transactions[last.tx].amount[1]

\* C3: where a Dispute is accepted, the Dispute followed by the Resolve of
\* the same client on the same id gives back the ledger as it was before.
ResolveOf(tr) == Transaction("resolve", tr.client, tr.tx, None)

ResolveUndoesDispute ==
    \A tr \in ReferringRecords :
        (tr.tr_type = "dispute" /\ Accepted(M, tr))
        => process_transaction(process_transaction(M, tr), ResolveOf(tr)) = M

\* deposit, dispute, resolve: the resolve was applied and the hold is gone
ResolveUndoesDispute_Witness ==
    /\ LastIs("resolve") /\ applied
    /\ last.tx \notin disputed_transactions
    /\ clients[last.client].held = 0
    /\ clients[last.client].available = revertable_transactions[last.tx].amount[1]
    /\ clients[last.client].available > 0

\* C4: a Chargeback of client c on a disputed id t whose stored record is a
\* deposit of c with amount a takes a from held and from total, leaves
\* available, removes t from the disputed set, sets locked, and changes no
\* other client.
ChargebackReversesAndLocks ==
    \A tr \in ReferringRecords :
        (/\ tr.tr_type = "chargeback"
         /\ RefersToOwnDeposit(M, tr)
         /\ tr.tx \in disputed_transactions)
        => LET a == revertable_transactions[tr.tx].amount[1]
               c == tr.client
               m2 == process_transaction(M, tr)
           IN  /\ c \in DOMAIN clients
               /\ m2.clients[c].held = clients[c].held - a
               /\ m2.clients[c].total = clients[c].total - a
               /\ m2.clients[c].available = clients[c].available
               /\ m2.clients[c].locked
               /\ m2.disputed_transactions = disputed_transactions \ {tr.tx}
               /\ DOMAIN m2.clients = DOMAIN clients
               /\ \A d \in DOMAIN clients \ {c} : m2.clients[d] = clients[d]

\* a chargeback has just been applied: the hold is gone, the client is locked
ChargebackReversesAndLocks_Witness ==
    /\ LastIs("chargeback") /\ applied
    /\ last.tx \notin disputed_transactions
    /\ revertable_transactions[last.tx].amount[1] > 0
    /\ clients[last.client].held = 0
    /\ clients[last.client].locked

\* C5: a Withdrawal of amount a for a client with available v is applied
\* exactly when v - a > 0: then available and total drop by a and held and
\* locked stay; otherwise available, held and total stay.
WithdrawalBoundary ==
    \A tr \in RevertableRecords :
        (tr.tr_type = "withdrawal" /\ tr.amount # None)
        => LET a == tr.amount[1]
               old == Balances(M, tr.client)
               new == process_transaction(M, tr).clients[tr.client]
           IN  IF old.available - a > 0
               THEN /\ new.available = old.available - a
                    /\ new.total = old.total - a
                    /\ new.held = old.held
                    /\ new.locked = old.locked
               ELSE /\ new.available = old.available
                    /\ new.held = old.held
                    /\ new.total = old.total

\* the boundary has happened: a withdrawal of all the available funds was
\* turned down
WithdrawalBoundary_Witness ==
    /\ LastIs("withdrawal") /\ ~applied
    /\ last.amount # None
    /\ clients[last.client].available > 0
    /\ clients[last.client].available = last.amount[1]

\* C6: a Dispute, Resolve or Chargeback that refers to an unknown id, to a
\* record of another client, to an already disputed id (Dispute), to an id
\* that is not disputed (Resolve, Chargeback) or to a record without an
\* amount leaves client map, history and disputed set as they were.
ProtocolViolation(m, tr) ==
    \/ tr.tx \notin DOMAIN m.revertable_transactions
    \/ m.revertable_transactions[tr.tx].client # tr.client
    \/ tr.tr_type = "dispute" /\ tr.tx \in m.disputed_transactions
    \/ tr.tr_type # "dispute" /\ tr.tx \notin m.disputed_transactions
    \/ m.revertable_transactions[tr.tx].amount = None

ProtocolViolationChangesNothing ==
    \A tr \in ReferringRecords :
        ProtocolViolation(M, tr) => process_transaction(M, tr) = M

\* a dispute was sent by a client that exists but does not own the deposit
ProtocolViolationChangesNothing_Witness ==
    /\ nrec > 0 /\ last.tr_type \in ReferringTypes /\ ~applied
    /\ last.tx \in DOMAIN revertable_transactions
    /\ revertable_transactions[last.tx].client # last.client
    /\ revertable_transactions[last.tx].tr_type = "deposit"
    /\ revertable_transactions[last.tx].amount # None
    /\ last.client \in DOMAIN clients

\* C7: a Withdrawal turned down for insufficient funds leaves the client map
\* (the set of client ids included), the history and the disputed set as
\* they were.
RejectedWithdrawalChangesNothing ==
    \A tr \in RevertableRecords :
        (/\ tr.tr_type = "withdrawal"
         /\ tr.amount # None
         /\ ~(Balances(M, tr.client).available - tr.amount[1] > 0))
        => process_transaction(M, tr) = M

\* C8: a Deposit that carries an amount a adds a to available and to total,
\* leaves held and locked and stores the record under its id, whatever the
\* client's balances.  Stated for the deposits of a non-negative amount that
\* follow a stream obeying the input contract.
DepositAlwaysCredits ==
    wellformed =>
    \A tr \in RevertableRecords :
        (tr.tr_type = "deposit" /\ tr.amount # None /\ tr.amount[1] >= 0)
        => LET a == tr.amount[1]
               old == Balances(M, tr.client)
               m2 == process_transaction(M, tr)
               new == m2.clients[tr.client]
           IN  /\ new.available = old.available + a
               /\ new.total = old.total + a
               /\ new.held = old.held
               /\ new.locked = old.locked
               /\ m2.revertable_transactions[tr.tx] = tr

\* C9: a Deposit or Withdrawal whose amount is absent or negative changes no
\* balance, creates no client and adds nothing to the history.
BadAmountIsDropped ==
    \A tr \in RevertableRecords :
        (tr.amount = None \/ tr.amount[1] < 0)
        => LET m2 == process_transaction(M, tr)
           IN  /\ m2.clients = clients
               /\ m2.revertable_transactions = revertable_transactions

\* C10: the clients of the client map are exactly the clients named by a
\* record that was applied.
SnapshotIsAcceptedClients == DOMAIN clients = touched


\* C11: while the amounts of the input are non-negative and the ids of its
\* deposits and withdrawals are unique, no client's held is negative.
HeldNonNegative ==
    wellformed => \A c \in DOMAIN clients : clients[c].held >= 0

\* a hold was placed and then released in full by a resolve
HeldNonNegative_Witness ==
    /\ wellformed
    /\ LastIs("resolve") /\ applied
    /\ revertable_transactions[last.tx].amount[1] > 0
    /\ clients[last.client].held = 0


\* C12: an id enters the disputed set only through a Dispute on that id
\* whose id is in the history, whose client is the client of the stored
\* record, and while the id is not disputed; and every disputed id is a key
\* of the history whose stored record's client has an entry in the client map.
DisputedOnlyByValidDisputeHere ==
    /\ \A t \in disputed_transactions :
          /\ t \in DOMAIN revertable_transactions
          /\ revertable_transactions[t].client \in DOMAIN clients
    /\ \A tr \in Records :
          \A t \in process_transaction(M, tr).disputed_transactions
                    \ disputed_transactions :
              /\ tr.tr_type = "dispute"
              /\ tr.tx = t
              /\ t \in DOMAIN revertable_transactions
              /\ revertable_transactions[t].client = tr.client

DisputedOnlyByValidDispute == []DisputedOnlyByValidDisputeHere

\* a dispute has just put the id of a deposit of its own client in the set
DisputedOnlyByValidDispute_Witness ==
    /\ LastIs("dispute")
    /\ disputed_transactions = {last.tx}
    /\ revertable_transactions[last.tx].client = last.client
    /\ last.client \in DOMAIN clients

\* C13: a record that is rejected (unknown kind, missing amount, withdrawal
\* without sufficient funds, Dispute/Resolve/Chargeback against the protocol)
\* is rejected again when applied a second time, and the second application
\* leaves the state the first one produced.
Rejected(m, tr) ==
    CASE tr.tr_type \in RevertableTypes ->
           \/ tr.amount = None
           \/ /\ tr.tr_type = "withdrawal"
              /\ ~(Balances(m, tr.client).available - tr.amount[1] > 0)
      [] tr.tr_type \in ReferringTypes -> ProtocolViolation(m, tr)
      [] OTHER -> TRUE

RejectionIsIdempotentHere ==
    \A tr \in Records :
        Rejected(M, tr)
        => LET m1 == process_transaction(M, tr)
           IN  /\ Rejected(m1, tr)
               /\ process_transaction(m1, tr) = m1

RejectionIsIdempotent == []RejectionIsIdempotentHere

\* the same dispute was sent again while its id was disputed
RejectionIsIdempotent_Witness ==
    /\ LastIs("dispute") /\ ~applied
    /\ last.tx \in disputed_transactions
    /\ revertable_transactions[last.tx].client = last.client
    /\ clients[last.client].held = revertable_transactions[last.tx].amount[1]
    /\ clients[last.client].held > 0


\* C14: a record whose kind is none of deposit, withdrawal, dispute, resolve,
\* chargeback leaves client map, history and disputed set as they were.
UnknownKindChangesNothing ==
    \A tr \in UnknownRecords : process_transaction(M, tr) = M

\* a record of unknown kind was handed to a ledger that holds a deposit
UnknownKindChangesNothing_Witness ==
    /\ nrec > 0 /\ last.tr_type \in UnknownTypes
    /\ DOMAIN clients # {}
    /\ DOMAIN revertable_transactions # {}
    /\ last.client \notin DOMAIN clients

\* C15 as stated: a Dispute whose id is in the history, whose client is the
\* stored record's client, whose id is not disputed and whose stored record
\* has an amount is accepted, be the stored record a Deposit or a
\* Withdrawal: the amount moves from available to held and the id enters the
\* disputed set.
FourPreconditions(m, tr) ==
    /\ tr.tx \in DOMAIN m.revertable_transactions
    /\ m.revertable_transactions[tr.tx].client = tr.client
    /\ tr.tx \notin m.disputed_transactions
    /\ m.revertable_transactions[tr.tx].amount # None

DisputeEffect(m, tr, m2) ==
    LET a == m.revertable_transactions[tr.tx].amount[1]
        c == tr.client
    IN  /\ c \in DOMAIN m.clients
        /\ m2.clients[c].available = m.clients[c].available - a
        /\ m2.clients[c].held = m.clients[c].held + a
        /\ m2.disputed_transactions = m.disputed_transactions \cup {tr.tx}

DisputeAcceptedForAnyKind ==
    \A tr \in ReferringRecords :
        (tr.tr_type = "dispute" /\ FourPreconditions(M, tr))
        => DisputeEffect(M, tr, process_transaction(M, tr))

\* C15 amended: such a Dispute is accepted when the stored record is a
\* Deposit, with the stated effect; when the stored record is a Withdrawal
\* it is rejected and nothing changes.
DisputeAcceptedForDepositsOnly ==
    \A tr \in ReferringRecords :
        (tr.tr_type = "dispute" /\ FourPreconditions(M, tr))
        => IF revertable_transactions[tr.tx].tr_type = "deposit"
           THEN DisputeEffect(M, tr, process_transaction(M, tr))
           ELSE process_transaction(M, tr) = M

\* a dispute on an applied withdrawal of the same client was turned down
DisputeAcceptedForDepositsOnly_Witness ==
    /\ LastIs("dispute") /\ ~applied
    /\ FourPreconditions(M, last)
    /\ revertable_transactions[last.tx].tr_type = "withdrawal"
    /\ revertable_transactions[last.tx].amount[1] > 0
    /\ clients[last.client].available > 0


\* C16: a client is created with locked = FALSE; locked turns TRUE only in
\* a Chargeback of that client that is accepted; a client that is locked is
\* locked after every record.
AcceptedChargebackOf(m, tr, c) ==
    /\ tr.tr_type = "chargeback"
    /\ tr.client = c
    /\ RefersToOwnDeposit(m, tr)
    /\ tr.tx \in m.disputed_transactions

LockedIsPermanentHere ==
    \A tr \in Records :
        LET m2 == process_transaction(M, tr) IN
        \A c \in DOMAIN m2.clients :
            /\ c \notin DOMAIN clients => ~m2.clients[c].locked
            /\ (c \in DOMAIN clients /\ clients[c].locked) => m2.clients[c].locked
            /\ (m2.clients[c].locked /\ ~Balances(M, c).locked)
               => AcceptedChargebackOf(M, tr, c)

LockedIsPermanent == []LockedIsPermanentHere

\* a chargeback has just locked a client that was created unlocked
LockedIsPermanent_Witness ==
    /\ LastIs("chargeback") /\ applied /\ nrec = MaxRecords
    /\ clients[last.client].locked
    /\ \A c \in DOMAIN clients \ {last.client} : ~clients[c].locked

\* C17: locked is never read: in the ledger in which one client's locked is
\* the opposite, every record has the same outcome and gives the same
\* available, held, total, history and disputed set; a locked client's
\* deposits and withdrawals are applied.  The flag of the client a record
\* names is flipped in every reachable state, the flag of another client
\* after every prefix of fewer than MaxRecords records.
FlipLocked(m, c) ==
    Ledger([m.clients EXCEPT ![c].locked = ~@],
           m.revertable_transactions, m.disputed_transactions)

\* the outcome and the result of tr in m and in its twin f, whose only
\* difference is the locked flag of client c
SameButLocked(m, f, c, tr) ==
    LET m2 == process_transaction(m, tr)
        f2 == process_transaction(f, tr)
    IN  /\ (m2 = m) = (f2 = f)
        /\ f2.revertable_transactions = m2.revertable_transactions
        /\ f2.disputed_transactions = m2.disputed_transactions
        /\ [f2.clients EXCEPT ![c].locked = m2.clients[c].locked] = m2.clients

LockedNeverReadHere ==
    \A tr \in Records : \A c \in DOMAIN clients :
        (c = tr.client \/ nrec < MaxRecords)
        => SameButLocked(M, FlipLocked(M, c), c, tr)

LockedNeverRead == []LockedNeverReadHere

\* a client is locked and a deposit for it is credited all the same
LockedNeverRead_Witness ==
    \E c \in DOMAIN clients :
        /\ clients[c].locked
        /\ \E tr \in RevertableRecords :
              /\ tr.client = c /\ tr.tr_type = "deposit"
              /\ process_transaction(M, tr).clients[c].available
                   > clients[c].available


\* C18: two adjacent records that name different clients can be swapped:
\* when the ids of deposits and withdrawals are unique, either order gives
\* the same client map, history and disputed set; and a record never changes
\* the entry of a client it does not name.  The swap is tried after every
\* prefix of fewer than MaxRecords records.
Fresh(m, tr) ==
    tr.tr_type \in RevertableTypes => tr.tx \notin DOMAIN m.revertable_transactions

UniquePair(m, a, b) ==
    /\ Fresh(m, a)
    /\ Fresh(m, b)
    /\ (a.tr_type \in RevertableTypes /\ b.tr_type \in RevertableTypes) => a.tx # b.tx

DifferentClientsCommuteHere ==
    /\ nrec < MaxRecords =>
          LET after == [r \in Records |-> process_transaction(M, r)] IN
          \A a \in Records : \A b \in Records :
              (a.client < b.client /\ UniquePair(M, a, b))
              => process_transaction(after[a], b) = process_transaction(after[b], a)
    /\ \A a \in Records : \A d \in DOMAIN clients \ {a.client} :
          process_transaction(M, a).clients[d] = clients[d]

DifferentClientsCommute == []DifferentClientsCommuteHere

\* a dispute of one client was applied next to a deposit of another client
DifferentClientsCommute_Witness ==
    /\ wellformed
    /\ LastIs("dispute") /\ applied
    /\ \E d \in DOMAIN clients \ {last.client} :
          /\ clients[d].available > 0
          /\ clients[d].held = 0


\* C19: after a Chargeback on an id is accepted, a Dispute on that id is not
\* accepted any more, so the deposit is taken from total at most once.
\* Stated for the Dispute that follows the Chargeback of a positive amount
\* at once, in a stream that obeys the input contract.
DisputeOf(tr) == Transaction("dispute", tr.client, tr.tx, None)

ChargedBackAtMostOnce ==
    wellformed =>
    \A tr \in ReferringRecords :
        (/\ AcceptedChargebackOf(M, tr, tr.client)
         /\ revertable_transactions[tr.tx].amount[1] > 0)
        => LET m1 == process_transaction(M, tr)
           IN  process_transaction(m1, DisputeOf(tr)) = m1

\* C20: a Deposit or Withdrawal that is rejected does not enter the history
\* and no Dispute, Resolve or Chargeback on its id is accepted afterwards.
\* Stated for a rejected record with a fresh id and no negative amount, in a
\* stream that obeys the input contract.
OnlyCreditedDepositsDisputable ==
    wellformed =>
    \A tr \in RevertableRecords :
        (WellFormedRecord(M, tr) /\ ~Accepted(M, tr))
        => LET m1 == process_transaction(M, tr)
           IN  /\ tr.tx \notin DOMAIN m1.revertable_transactions
               /\ \A r \in ReferringRecords :
                     r.tx = tr.tx => process_transaction(m1, r) = m1

====
